---- MODULE Spec2Model ----
(***************************************************************************)
(* Model of svelte-kit-cookie-session's core: initializeSession            *)
(* (src/src/lib/core.ts) and the helpers of utils (src/unnamed/part_000).  *)
(*                                                                         *)
(* Time is counted in ticks, TicksPerSec ticks to the second, so that the  *)
(* sub-second part of a Date and Math.round's effect on it are visible.    *)
(* A max-age (seconds in the code, possibly fractional) is kept in ticks.  *)
(* The encrypt/decrypt primitive of zencrypt is symbolic: a ciphertext     *)
(* names the key and the data it was made from, and decrypt succeeds only  *)
(* under that key.  In Spec the encrypt primitive never fails.             *)
(*                                                                         *)
(* Spec: requests whose handle operations run one after the other.         *)
(* SpecFail: one request in which a call of encrypt may reject.            *)
(* SpecConfig: one request, from the caller's `secret` option on.          *)
(* SpecOverlap: one request in which two set/update calls overlap.         *)
(***************************************************************************)
EXTENDS Integers, Sequences, FiniteSets, TLC

VARIABLES
    options,        \* the normalized configuration (core.ts 19-34)
    now,            \* the clock, in ticks: Date.now() / new Date()
    pc,             \* "uninit" before initializeSession ran, "ready" after
    cookieHeader,   \* cookies[options.key] (core.ts 36-43): the value the client presents
    sessionCookie,  \* let sessionCookie (core.ts 43), as split on '&id='
    sessionData,    \* let sessionData (core.ts 54)
    sessionState,   \* const sessionState (core.ts 45-50)
    setCookie,      \* let setCookie (core.ts 17): the outgoing directive
    init,           \* what initialisation did (history)
    last,           \* the last handle operation and what it returned (history)
    calls,          \* the set/update calls in flight, when calls overlap
    reqNo,          \* number of the request being served
    prev            \* how the previous request ended (history)

vars == <<options, now, pc, cookieHeader, sessionCookie, sessionData, sessionState, setCookie,
          init, last, calls, reqNo, prev>>

-----------------------------------------------------------------------------
(* Bounds of the model *)

TicksPerSec == 2
DaySecs == 1
MaxNow == 3

(* Program constants *)

DefaultExpiresInDays == 7
DestroyOffsetMs == 360000000

-----------------------------------------------------------------------------
(* Values *)

Payloads == {{}, {"a"}}

\* let sessionData: SessionDataWithExpires | undefined
Undefined == [def |-> FALSE, payload |-> {}, expires |-> 0]
Data(p, e) == [def |-> TRUE, payload |-> p, expires |-> e]

\* what the getter hands out for "no session": {}
EmptyObject == [def |-> TRUE, payload |-> {}, expires |-> 0, hasExpires |-> FALSE]
AsObject(sd) == [def |-> TRUE, payload |-> sd.payload, expires |-> sd.expires,
                 hasExpires |-> TRUE]

\* zencrypt, symbolically
Encrypt(data, secret) == [kind |-> "enc", key |-> secret, data |-> data]
Blob(kind) == [kind |-> kind, key |-> "", data |-> Undefined]
EmptyString == Blob("empty")
Zero == Blob("zero")
Tampered == Blob("bad")

Decrypt(ct, secret) ==
    [ok |-> ct.kind = "enc" /\ ct.key = secret, data |-> ct.data]

\* let setCookie: string | undefined
NoCookie == [set |-> FALSE, value |-> <<EmptyString>>, hasMaxAge |-> FALSE, maxAge |-> 0,
             hasExpires |-> FALSE, expires |-> 0]

Secret(i, s) == [id |-> i, secret |-> s]

Rings ==
    { <<Secret(1, "k1")>>,
      <<Secret(2, "k2"), Secret(1, "k1")>>,
      <<Secret(1, "k1"), Secret(2, "k2")>>,
      <<Secret(2, "k2")>> }

\* the requests of one client: a request and the one that follows it
Requests == {1, 2}

\* rolling: false | true | a percentage
RollingOff == [isNumber |-> FALSE, on |-> FALSE, pct |-> 0]
RollingOn == [isNumber |-> FALSE, on |-> TRUE, pct |-> 0]
RollingPct(p) == [isNumber |-> TRUE, on |-> p # 0, pct |-> p]
Rollings == {RollingOff, RollingOn, RollingPct(100)}

\* userOptions.expires: absent, or a number of days
UserExpires == {<<>>, <<1>>}

-----------------------------------------------------------------------------
(* utils *)

\* the seconds between today and the same time `days` days later, in ticks
\* (a day is DaySecs seconds long here)
daysToMaxage(days) == days * DaySecs * TicksPerSec

maxAgeToDateOfExpiry(maxAge) == now + maxAge

\* Math.round of n/d seconds (d > 0): halves round up
MathRound(n, d) == (2 * n + d) \div (2 * d)

-----------------------------------------------------------------------------
(* Config Normalizer *)

Normalize(userExpires, userRolling, userSecret) ==
    LET days == IF userExpires = <<>> THEN DefaultExpiresInDays ELSE userExpires[1]
    IN  [expiresInDays |-> days,
         maxAge |-> daysToMaxage(days),
         rolling |-> userRolling,
         secrets |-> userSecret]

-----------------------------------------------------------------------------
(* The handle: sessionData, sessionState and setCookie as one record, so that
   the functions of initializeSession compose *)

HandleState ==
    [sessionData |-> sessionData, sessionState |-> sessionState, setCookie |-> setCookie]

FreshState ==
    [invalidDate |-> FALSE, shouldReEncrypt |-> FALSE, shouldDestroy |-> FALSE,
     shouldSendToClient |-> FALSE]

\* `${await encrypt(sessionData, secret)}&id=${id}` (core.ts 106-110)
Encode(data, entry) == <<Encrypt(data, entry.secret), entry.id>>

\* makeCookie (core.ts 105-121): encode under secrets[0], or the destroy sentinel
makeCookieOldest(data, maxAge, destroy) ==
    LET n == Len(options.secrets)
    IN  [set |-> TRUE,
         value |-> IF destroy THEN <<Zero>>
                   ELSE Encode(data, options.secrets[n]),
         hasMaxAge |-> ~destroy,
         maxAge |-> IF destroy THEN 0 ELSE maxAge,
         hasExpires |-> destroy,
         expires |-> IF destroy THEN now - (DestroyOffsetMs \div 1000) * TicksPerSec ELSE 0]

makeCookie(data, maxAge, destroy) ==
    [set |-> TRUE,
     value |-> IF destroy THEN <<Zero>>
               ELSE Encode(data, options.secrets[1]),
     hasMaxAge |-> ~destroy,
     maxAge |-> IF destroy THEN 0 ELSE maxAge,
     hasExpires |-> destroy,
     expires |-> IF destroy THEN now - (DestroyOffsetMs \div 1000) * TicksPerSec ELSE 0]

Flagged(st, flag) == [st EXCEPT ![flag] = TRUE]

\* checkSessionExpiry (core.ts 56-64)
checkSessionExpiry(h) ==
    IF h.sessionData.def /\ h.sessionData.expires < now
    THEN [h EXCEPT !.sessionState = Flagged(h.sessionState, "invalidDate")]
    ELSE h

\* destroySession (core.ts 214-218)
destroySessionKeepData(h) ==
    [h EXCEPT !.setCookie = makeCookie(Undefined, 0, TRUE),
              !.sessionState = Flagged(h.sessionState, "shouldSendToClient")]

destroySessionSilent(h) == [h EXCEPT !.sessionData = Undefined]

destroySession(h) ==
    [sessionData |-> Undefined,
     setCookie |-> makeCookie(Undefined, 0, TRUE),
     sessionState |-> Flagged(h.sessionState, "shouldSendToClient")]

\* the maxAge that set, update and reEncryptSession compute (core.ts 130-134,
\* 148-152, 222-226): the remaining lifetime of the stored session, else the default
RemainingOrDefault(sd) ==
    IF sd.def THEN sd.expires - now ELSE options.maxAge

\* reEncryptSession (core.ts 220-232)
reEncryptSessionReset(h) ==
    IF h.sessionData.def
    THEN LET sd == Data(h.sessionData.payload, maxAgeToDateOfExpiry(options.maxAge))
         IN  [sessionData |-> sd,
              sessionState |-> Flagged(h.sessionState, "shouldSendToClient"),
              setCookie |-> makeCookie(sd, options.maxAge, FALSE)]
    ELSE h

reEncryptSessionNoDirective(h) ==
    IF h.sessionData.def
    THEN [h EXCEPT !.sessionState = Flagged(h.sessionState, "shouldSendToClient")]
    ELSE h

reEncryptSession(h) ==
    IF h.sessionData.def
    THEN [sessionData |-> h.sessionData,
          sessionState |-> Flagged(h.sessionState, "shouldSendToClient"),
          setCookie |-> makeCookie(h.sessionData, RemainingOrDefault(h.sessionData), FALSE)]
    ELSE h

-----------------------------------------------------------------------------
(* Session Codec: decode (getSessionData, core.ts 66-101) *)

\* const [_sessionCookie, secret_id] = sessionCookie.split('&id=')
Payload(parts) == parts[1]
HasTag(parts) == Len(parts) >= 2

\* const decodeID = secret_id ? Number(secret_id) : 1
DecodeID(parts) == IF HasTag(parts) THEN parts[2] ELSE 1

\* options.secrets.find(sec => sec.id === decodeID), else options.secrets[0]
FindSecretCurrent(decodeID) == options.secrets[1]

FindSecret(decodeID) ==
    LET hits == {i \in 1..Len(options.secrets) : options.secrets[i].id = decodeID}
    IN  IF hits # {}
        THEN options.secrets[CHOOSE i \in hits : \A j \in hits : i <= j]
        ELSE options.secrets[1]

Decoded(parts) == Decrypt(Payload(parts), FindSecret(DecodeID(parts)).secret)

\* options.secrets[0].id !== decodeID
ShouldRotateNever(parts) == FALSE

ShouldRotate(parts) == options.secrets[1].id # DecodeID(parts)

getSessionData(h, parts) ==
    IF Payload(parts) # EmptyString
    THEN IF Decoded(parts).ok
         THEN LET h1 == checkSessionExpiry([h EXCEPT !.sessionData = Decoded(parts).data])
              IN  IF ShouldRotate(parts) THEN reEncryptSession(h1) ELSE h1
         ELSE destroySession(h)
    ELSE h

-----------------------------------------------------------------------------
(* Session Handle (core.ts 123-193) *)

\* get data()
Read(h) ==
    IF h.sessionData.def /\ ~h.sessionState.invalidDate /\ ~h.sessionState.shouldDestroy
    THEN AsObject(h.sessionData)
    ELSE EmptyObject

\* set (core.ts 147-164)
set(h, data) ==
    LET maxAge == RemainingOrDefault(h.sessionData)
        sd == Data(data, maxAgeToDateOfExpiry(maxAge))
    IN  [sessionData |-> sd,
         sessionState |-> Flagged(h.sessionState, "shouldSendToClient"),
         setCookie |-> makeCookie(sd, maxAge, FALSE)]

\* the transforms a caller passes to update: each maps the object it is handed
\* (sessionData itself, possibly undefined) to the next payload
UpdateFns == {"addA", "same"}

ApplyFn(fn, current) ==
    LET fields == IF current.def THEN current.payload ELSE {}
    IN  IF fn = "addA" THEN fields \cup {"a"} ELSE fields

\* update (core.ts 127-146)
TransformInput(h) == h.sessionData

update(h, fn) ==
    LET _sd == ApplyFn(fn, TransformInput(h))
        maxAge == RemainingOrDefault(h.sessionData)
        sd == Data(_sd, maxAgeToDateOfExpiry(maxAge))
    IN  [sessionData |-> sd,
         sessionState |-> Flagged(h.sessionState, "shouldSendToClient"),
         setCookie |-> makeCookie(sd, maxAge, FALSE)]

\* refresh (core.ts 171-188); days is <<>> (no argument) or <<d>>
RefreshDays == {<<>>, <<0>>, <<2>>}

refreshGuard(h) == h.sessionData.def

refresh(h, days) ==
    IF ~refreshGuard(h) THEN [h |-> h, ret |-> FALSE]
    ELSE LET newMaxAge == daysToMaxage(IF days # <<>> /\ days[1] # 0
                                       THEN days[1] ELSE options.expiresInDays)
             sd == Data(h.sessionData.payload, maxAgeToDateOfExpiry(newMaxAge))
         IN  [h |-> [sessionData |-> sd,
                     setCookie |-> makeCookie(sd, newMaxAge, FALSE),
                     sessionState |-> Flagged(h.sessionState, "shouldSendToClient")],
              ret |-> TRUE]

\* destroy (core.ts 189-192)
destroy(h) == [h |-> destroySession(h), ret |-> TRUE]

-----------------------------------------------------------------------------
(* Rolling Refresh Policy (core.ts 195-212) *)

\* differenceInSeconds < (options.rolling / 100) * options.cookie.maxAge
BelowThresholdExact(sd) ==
    (sd.expires - now) * 100 < options.rolling.pct * options.maxAge

BelowThreshold(sd) ==
    MathRound(sd.expires - now, TicksPerSec) * 100 * TicksPerSec
        < options.rolling.pct * options.maxAge

\* whether the block calls session.refresh()
RollingCallsRefresh(h) ==
    /\ options.rolling.on
    /\ (options.rolling.isNumber /\ h.sessionData.def) => BelowThreshold(h.sessionData)

RollingBlock(h) ==
    IF RollingCallsRefresh(h) THEN refresh(h, <<>>) ELSE [h |-> h, ret |-> FALSE]


-----------------------------------------------------------------------------
(* Requests *)

InPayloads == {{"b"}}
InExpires == {0 - 1, 0, 2}

\* how a presented session value was made: the key it was encrypted under and
\* its '&id=' tag (<<>>: no tag).  Besides the honest ones: a value tagged with
\* another ring id, with an id no ring has, and one made with a foreign key
KeyTags ==
    { <<"k1", <<>>>>, <<"k1", <<1>>>>, <<"k2", <<2>>>>, <<"k2", <<>>>>,
      <<"k1", <<2>>>>, <<"k1", <<9>>>>, <<"k2", <<9>>>>, <<"kx", <<1>>>> }

\* the cookie values a client may present on the first request: none, the
\* sentinel '0', a damaged value, or a session encoded under some key
IncomingCookies ==
    {<<EmptyString>>, <<EmptyString, 1>>, <<Zero>>, <<Tampered>>, <<Tampered, 2>>}
    \cup {<<Encrypt(Data(p, e), kt[1])>> \o kt[2] :
            p \in InPayloads, e \in InExpires, kt \in KeyTags}

NoInit == [decoded |-> FALSE, failed |-> FALSE, rotated |-> FALSE, rolled |-> FALSE,
           data |-> Undefined, at |-> 0, encryptFailed |-> FALSE]
\* wrote: set, update, destroy or a successful refresh was invoked on the handle
NoOp == [op |-> "none", ret |-> FALSE, threw |-> FALSE, wrote |-> FALSE]

\* a call in flight: where it stands, the payload its transform returned and
\* the cookie its encrypt is producing
NoCall == [pc |-> "idle", kind |-> "", fn |-> "", result |-> {}, cookie |-> NoCookie]
NoCalls == <<NoCall, NoCall>>
NoPrev == [any |-> FALSE, cookieHeader |-> <<EmptyString>>, sessionData |-> Undefined,
           setCookie |-> NoCookie, op |-> "none", init |-> NoInit]

Init ==
    /\ options \in {Normalize(e, r, s) : e \in UserExpires, r \in Rollings, s \in Rings}
    /\ now = 0
    /\ pc = "uninit"
    /\ cookieHeader \in IncomingCookies
    /\ sessionCookie = cookieHeader
    /\ sessionData = Undefined
    /\ sessionState = FreshState
    /\ setCookie = NoCookie
    /\ init = NoInit
    /\ last = NoOp
    /\ calls = NoCalls
    /\ reqNo = 1
    /\ prev = NoPrev

Install(h) ==
    /\ sessionData' = h.sessionData
    /\ sessionState' = h.sessionState
    /\ setCookie' = h.setCookie

\* initializeSession (core.ts 6-241): getSessionData, then the rolling block
Initialize ==
    /\ pc = "uninit"
    /\ LET g == getSessionData(HandleState, sessionCookie)
           r == RollingBlock(g)
           attempted == Payload(sessionCookie) # EmptyString
           ok == attempted /\ Decoded(sessionCookie).ok
       IN  /\ Install(r.h)
           /\ sessionCookie' = IF attempted THEN <<Payload(sessionCookie)>> ELSE sessionCookie
           /\ init' = [decoded |-> ok,
                       failed |-> attempted /\ ~ok,
                       rotated |-> ok /\ ShouldRotate(sessionCookie),
                       rolled |-> r.ret,
                       data |-> IF ok THEN Decoded(sessionCookie).data ELSE Undefined,
                       at |-> now,
                       encryptFailed |-> FALSE]
    /\ pc' = "ready"
    /\ UNCHANGED <<options, now, cookieHeader, last, calls, reqNo, prev>>

\* the handle is in use.  The follow-up request is only initialised: what its
\* handle can do afterwards is what the first one can
CanOperate == pc = "ready" /\ reqNo = 1

Set(data) ==
    /\ CanOperate
    /\ Install(set(HandleState, data))
    /\ last' = [op |-> "set", ret |-> TRUE, threw |-> FALSE, wrote |-> TRUE]
    /\ UNCHANGED <<options, now, pc, cookieHeader, sessionCookie, init, calls, reqNo, prev>>

Update(fn) ==
    /\ CanOperate
    /\ Install(update(HandleState, fn))
    /\ last' = [op |-> "update", ret |-> TRUE, threw |-> FALSE, wrote |-> TRUE]
    /\ UNCHANGED <<options, now, pc, cookieHeader, sessionCookie, init, calls, reqNo, prev>>

Refresh(days) ==
    /\ CanOperate
    /\ Install(refresh(HandleState, days).h)
    /\ last' = [op |-> "refresh", ret |-> refresh(HandleState, days).ret, threw |-> FALSE,
                wrote |-> last.wrote \/ refresh(HandleState, days).ret]
    /\ UNCHANGED <<options, now, pc, cookieHeader, sessionCookie, init, calls, reqNo, prev>>

Destroy ==
    /\ CanOperate
    /\ Install(destroy(HandleState).h)
    /\ last' = [op |-> "destroy", ret |-> destroy(HandleState).ret, threw |-> FALSE,
                wrote |-> TRUE]
    /\ UNCHANGED <<options, now, pc, cookieHeader, sessionCookie, init, calls, reqNo, prev>>

\* the caller reads session.data (core.ts 165-170): the getter computes Read
\* from the handle and assigns nothing
ReadData ==
    /\ CanOperate
    /\ Read(HandleState) \in {EmptyObject} \cup {AsObject(sessionData)}
    /\ UNCHANGED vars

\* the clock advances while the request is served
Tick ==
    /\ CanOperate
    /\ now < MaxNow
    /\ now' = now + 1
    /\ UNCHANGED <<options, pc, cookieHeader, sessionCookie, sessionData, sessionState,
                   setCookie, init, last, calls, reqNo, prev>>

\* the response is sent and the client comes back: it presents the value of the
\* outgoing directive if there was one, else the cookie it already had; the new
\* request gets a new handle (core.ts 17, 43-54)
NextRequest ==
    /\ pc = "ready"
    /\ reqNo + 1 \in Requests
    /\ reqNo' = reqNo + 1
    /\ prev' = [any |-> TRUE, cookieHeader |-> cookieHeader, sessionData |-> sessionData,
                setCookie |-> setCookie, op |-> last.op, init |-> init]
    /\ cookieHeader' = IF setCookie.set THEN setCookie.value ELSE cookieHeader
    /\ sessionCookie' = cookieHeader'
    /\ sessionData' = Undefined
    /\ sessionState' = FreshState
    /\ setCookie' = NoCookie
    /\ init' = NoInit
    /\ last' = NoOp
    /\ pc' = "uninit"
    /\ UNCHANGED <<options, now, calls>>

Next ==
    \/ Initialize
    \/ \E data \in Payloads : Set(data)
    \/ \E fn \in UpdateFns : Update(fn)
    \/ \E days \in RefreshDays : Refresh(days)
    \/ Destroy
    \/ ReadData
    \/ Tick
    \/ NextRequest

Spec == Init /\ [][Next]_vars

-----------------------------------------------------------------------------
(* Encrypt failure: zencrypt's encrypt rejects.  Each operator gives what the
   code has assigned by the time the rejection reaches it. *)

\* set (core.ts 147-164): sessionData (154) and shouldSendToClient (159) are
\* assigned before `setCookie = await makeCookie(maxAge)` (161) throws
setEncryptFails(h, data) ==
    LET maxAge == RemainingOrDefault(h.sessionData)
    IN  [h EXCEPT !.sessionData = Data(data, maxAgeToDateOfExpiry(maxAge)),
                  !.sessionState = Flagged(h.sessionState, "shouldSendToClient")]

\* update (core.ts 127-146): as set, after the transform
updateEncryptFails(h, fn) ==
    LET _sd == ApplyFn(fn, TransformInput(h))
        maxAge == RemainingOrDefault(h.sessionData)
    IN  [h EXCEPT !.sessionData = Data(_sd, maxAgeToDateOfExpiry(maxAge)),
                  !.sessionState = Flagged(h.sessionState, "shouldSendToClient")]

\* refresh (core.ts 171-188), past its guard: sessionData is assigned (178-181),
\* makeCookie (183) throws before shouldSendToClient (185) is set
refreshEncryptFails(h, days) ==
    LET newMaxAge == daysToMaxage(IF days # <<>> /\ days[1] # 0
                                  THEN days[1] ELSE options.expiresInDays)
    IN  [h EXCEPT !.sessionData = Data(h.sessionData.payload, maxAgeToDateOfExpiry(newMaxAge))]

\* reEncryptSession (core.ts 220-232): shouldSendToClient (229) is set, makeCookie
\* (230) throws
reEncryptSessionEncryptFails(h) ==
    [h EXCEPT !.sessionState = Flagged(h.sessionState, "shouldSendToClient")]

\* getSessionData when the rotation's encrypt throws: the await at core.ts 93 is
\* inside the try of 85-99, so the catch runs destroySession
getSessionDataEncryptFails(h, parts) ==
    LET h1 == checkSessionExpiry([h EXCEPT !.sessionData = Decoded(parts).data])
    IN  destroySession(reEncryptSessionEncryptFails(h1))

\* initializeSession with the rotation's encrypt failing
InitializeRotationFails ==
    /\ pc = "uninit"
    /\ Payload(sessionCookie) # EmptyString
    /\ Decoded(sessionCookie).ok
    /\ ShouldRotate(sessionCookie)
    /\ LET g == getSessionDataEncryptFails(HandleState, sessionCookie)
           r == RollingBlock(g)
       IN  /\ Install(r.h)
           /\ init' = [decoded |-> TRUE,
                       failed |-> FALSE,
                       rotated |-> FALSE,
                       rolled |-> r.ret,
                       data |-> Decoded(sessionCookie).data,
                       at |-> now,
                       encryptFailed |-> TRUE]
    /\ sessionCookie' = <<Payload(sessionCookie)>>
    /\ pc' = "ready"
    /\ UNCHANGED <<options, now, cookieHeader, last, calls, reqNo, prev>>

\* initializeSession with the rolling refresh's encrypt failing: the await at
\* core.ts 207/210 is not inside a try, so initializeSession rejects and the
\* caller gets no handle
InitializeRollingFails ==
    /\ pc = "uninit"
    /\ LET g == getSessionData(HandleState, sessionCookie)
           attempted == Payload(sessionCookie) # EmptyString
           ok == attempted /\ Decoded(sessionCookie).ok
       IN  /\ RollingCallsRefresh(g)
           /\ refreshGuard(g)
           /\ Install(refreshEncryptFails(g, <<>>))
           /\ sessionCookie' = IF attempted THEN <<Payload(sessionCookie)>> ELSE sessionCookie
           /\ init' = [decoded |-> ok,
                       failed |-> attempted /\ ~ok,
                       rotated |-> ok /\ ShouldRotate(sessionCookie),
                       rolled |-> FALSE,
                       data |-> IF ok THEN Decoded(sessionCookie).data ELSE Undefined,
                       at |-> now,
                       encryptFailed |-> TRUE]
    /\ pc' = "threw"
    /\ UNCHANGED <<options, now, cookieHeader, last, calls, reqNo, prev>>

\* set, update and refresh with their encrypt failing: the call rejects, which
\* ends the caller's use of the handle in this request
SetFails(data) ==
    /\ CanOperate
    /\ Install(setEncryptFails(HandleState, data))
    /\ last' = [op |-> "set", ret |-> FALSE, threw |-> TRUE, wrote |-> TRUE]
    /\ pc' = "threw"
    /\ UNCHANGED <<options, now, cookieHeader, sessionCookie, init, calls, reqNo, prev>>

UpdateFails(fn) ==
    /\ CanOperate
    /\ Install(updateEncryptFails(HandleState, fn))
    /\ last' = [op |-> "update", ret |-> FALSE, threw |-> TRUE, wrote |-> TRUE]
    /\ pc' = "threw"
    /\ UNCHANGED <<options, now, cookieHeader, sessionCookie, init, calls, reqNo, prev>>

RefreshFails(days) ==
    /\ CanOperate
    /\ refreshGuard(HandleState)
    /\ Install(refreshEncryptFails(HandleState, days))
    /\ last' = [op |-> "refresh", ret |-> FALSE, threw |-> TRUE, wrote |-> last.wrote]
    /\ pc' = "threw"
    /\ UNCHANGED <<options, now, cookieHeader, sessionCookie, init, calls, reqNo, prev>>

\* one request, served at one instant, in which any call of encrypt may fail
NextFail ==
    \/ Initialize
    \/ InitializeRotationFails
    \/ InitializeRollingFails
    \/ \E data \in Payloads : Set(data)
    \/ \E fn \in UpdateFns : Update(fn)
    \/ \E days \in RefreshDays : Refresh(days)
    \/ Destroy
    \/ ReadData
    \/ \E data \in Payloads : SetFails(data)
    \/ \E fn \in UpdateFns : UpdateFails(fn)
    \/ \E days \in RefreshDays : RefreshFails(days)

SpecFail == Init /\ [][NextFail]_vars

-----------------------------------------------------------------------------
(* Configuration: initializeSession from the caller's options (core.ts 10-34),
   the `secret` option being absent, one bare secret, or a list of entries *)

UserSecret(given, isArray, bare, list) ==
    [given |-> given, isArray |-> isArray, bare |-> bare, list |-> list]

UserSecrets ==
    { UserSecret(FALSE, FALSE, "", <<>>),
      UserSecret(TRUE, FALSE, "k1", <<>>),
      UserSecret(TRUE, TRUE, "", <<>>),
      UserSecret(TRUE, TRUE, "", <<Secret(2, "k2"), Secret(1, "k1")>>) }

\* if (userOptions.secret == null) throw ... (core.ts 10-12, part_000 40-42)
ConfigRejected(u) == ~u.given

\* Array.isArray(secret) ? secret : [{ id: 1, secret }] (core.ts 31-33,
\* part_000 60)
secretsOf(u) == IF u.isArray THEN u.list ELSE <<Secret(1, u.bare)>>

\* before line 19 there are no options yet
Unconfigured == Normalize(<<>>, RollingOff, <<>>)

InitConfig ==
    /\ options = Unconfigured
    /\ now = 0
    /\ pc = "unconfigured"
    /\ cookieHeader \in IncomingCookies
    /\ sessionCookie = cookieHeader
    /\ sessionData = Undefined
    /\ sessionState = FreshState
    /\ setCookie = NoCookie
    /\ init = NoInit
    /\ last = NoOp
    /\ calls = NoCalls
    /\ reqNo = 1
    /\ prev = NoPrev

\* core.ts 10-34: reject, or build options
Configure(u, e, r) ==
    /\ pc = "unconfigured"
    /\ IF ConfigRejected(u)
       THEN pc' = "configError" /\ options' = options
       ELSE pc' = "uninit" /\ options' = Normalize(e, r, secretsOf(u))
    /\ UNCHANGED <<now, cookieHeader, sessionCookie, sessionData, sessionState, setCookie,
                   init, last, calls, reqNo, prev>>

RingNonEmpty == Len(options.secrets) > 0

\* initializeSession with options.secrets = []: find (76) gives undefined and so
\* does secrets[0] (79); `secret.secret` (86) throws inside the try, and the
\* catch runs destroySession; the rolling block then finds no session
InitializeEmptyRing ==
    /\ pc = "uninit"
    /\ ~RingNonEmpty
    /\ LET attempted == Payload(sessionCookie) # EmptyString
           g == IF attempted THEN destroySession(HandleState) ELSE HandleState
           r == RollingBlock(g)
       IN  /\ Install(r.h)
           /\ sessionCookie' = IF attempted THEN <<Payload(sessionCookie)>> ELSE sessionCookie
           /\ init' = [decoded |-> FALSE,
                       failed |-> attempted,
                       rotated |-> FALSE,
                       rolled |-> r.ret,
                       data |-> Undefined,
                       at |-> now,
                       encryptFailed |-> FALSE]
    /\ pc' = "ready"
    /\ UNCHANGED <<options, now, cookieHeader, last, calls, reqNo, prev>>

\* one request; with an empty ring makeCookie's `options.secrets[0].secret`
\* (core.ts 107) throws, which set and update pass on as a failing encrypt does
NextConfig ==
    \/ \E u \in UserSecrets, e \in UserExpires, r \in Rollings : Configure(u, e, r)
    \/ RingNonEmpty /\ Initialize
    \/ InitializeEmptyRing
    \/ RingNonEmpty /\ \E data \in Payloads : Set(data)
    \/ ~RingNonEmpty /\ \E data \in Payloads : SetFails(data)
    \/ RingNonEmpty /\ \E fn \in UpdateFns : Update(fn)
    \/ ~RingNonEmpty /\ \E fn \in UpdateFns : UpdateFails(fn)
    \/ \E days \in RefreshDays : Refresh(days)
    \/ Destroy
    \/ ReadData

SpecConfig == InitConfig /\ [][NextConfig]_vars

-----------------------------------------------------------------------------
(* Overlapping calls: the caller starts a set or update while another is still
   awaiting.  A call runs up to its next await in one step. *)

CallIds == {1, 2}

Call(pcOf, kind, fn, result, cookie) ==
    [pc |-> pcOf, kind |-> kind, fn |-> fn, result |-> result, cookie |-> cookie]

\* the calls start in the order of their numbers
MayStart(c) ==
    /\ pc = "ready"
    /\ calls[c].pc = "idle"
    /\ \A d \in CallIds : d < c => calls[d].pc # "idle"

\* set (core.ts 147-164) up to `await makeCookie(maxAge)` (161): sessionData and
\* the flag are assigned, and encrypt has been called with that sessionData
\* (107); the cookie it will give is known, setCookie is not yet assigned
StartSet(c, data) ==
    /\ MayStart(c)
    /\ sessionData' = set(HandleState, data).sessionData
    /\ sessionState' = set(HandleState, data).sessionState
    /\ calls' = [calls EXCEPT
                   ![c] = Call("encrypt", "set", "", data, set(HandleState, data).setCookie)]
    /\ UNCHANGED <<options, now, pc, cookieHeader, sessionCookie, setCookie, init, last,
                   reqNo, prev>>

\* update (core.ts 127-146) up to `await updateFn(sessionData)` (128): the
\* transform has been handed the sessionData of this moment
StartUpdate(c, fn) ==
    /\ MayStart(c)
    /\ calls' = [calls EXCEPT
                   ![c] = Call("transform", "update", fn,
                               ApplyFn(fn, TransformInput(HandleState)), NoCookie)]
    /\ UNCHANGED <<options, now, pc, cookieHeader, sessionCookie, sessionData, sessionState,
                   setCookie, init, last, reqNo, prev>>

\* update from the transform's result to `await makeCookie(maxAge)` (130-143)
FinishTransform(c) ==
    /\ calls[c].pc = "transform"
    /\ LET maxAge == RemainingOrDefault(sessionData)
           sd == Data(calls[c].result, maxAgeToDateOfExpiry(maxAge))
       IN  /\ sessionData' = sd
           /\ sessionState' = Flagged(sessionState, "shouldSendToClient")
           /\ calls' = [calls EXCEPT ![c].pc = "encrypt",
                                     ![c].cookie = makeCookie(sd, maxAge, FALSE)]
    /\ UNCHANGED <<options, now, pc, cookieHeader, sessionCookie, setCookie, init, last,
                   reqNo, prev>>

\* encrypt resolves: `setCookie = ...` (143, 161) is assigned and the call returns
FinishEncrypt(c) ==
    /\ calls[c].pc = "encrypt"
    /\ setCookie' = calls[c].cookie
    /\ calls' = [calls EXCEPT ![c].pc = "done"]
    /\ UNCHANGED <<options, now, pc, cookieHeader, sessionCookie, sessionData, sessionState,
                   init, last, reqNo, prev>>

NextOverlap ==
    \/ Initialize
    \/ \E c \in CallIds, data \in Payloads : StartSet(c, data)
    \/ \E c \in CallIds, fn \in UpdateFns : StartUpdate(c, fn)
    \/ \E c \in CallIds : FinishTransform(c)
    \/ \E c \in CallIds : FinishEncrypt(c)

SpecOverlap == Init /\ [][NextOverlap]_vars


-----------------------------------------------------------------------------
(* Properties *)

\* the handle has been initialised and no operation was called on it yet
JustInitialised == pc = "ready" /\ last.op = "none"

\* what read() returns in the current state
read == Read(HandleState)

\* cookie value c is a session that an earlier deployment encoded under the
\* non-current ring entry i: tagged with its id, or untagged when its id is 1
EncodedUnder(c, i) ==
    /\ c[1].kind = "enc"
    /\ c[1].key = options.secrets[i].secret
    /\ \/ Len(c) = 2 /\ c[2] = options.secrets[i].id
       \/ Len(c) = 1 /\ options.secrets[i].id = 1

FromRetiredSecret(c) == \E i \in 2..Len(options.secrets) : EncodedUnder(c, i)

\* the directive carries a session cookie that ring[0] decodes to data d
CarriesUnderCurrent(directive, d) ==
    /\ directive.set
    /\ Len(directive.value) = 2
    /\ directive.value[2] = options.secrets[1].id
    /\ Decrypt(directive.value[1], options.secrets[1].secret).ok
    /\ Decrypt(directive.value[1], options.secrets[1].secret).data = d

\* C1 (Rotation): a non-expired cookie encoded under a non-current ring secret
\* leaves read() returning its payload (and its expires, unless the rolling policy
\* renewed it), and the outgoing directive carries the session tagged with
\* ring[0].id; presented on the following request that cookie decodes to the same
\* payload without another rotation.
C1_Rotation ==
    /\ (JustInitialised /\ FromRetiredSecret(cookieHeader)
            /\ cookieHeader[1].data.expires > init.at)
       => /\ read.hasExpires
          /\ read.payload = cookieHeader[1].data.payload
          /\ ~init.rolled => read.expires = cookieHeader[1].data.expires
          /\ CarriesUnderCurrent(setCookie, sessionData)
    /\ (JustInitialised /\ reqNo = 2 /\ prev.op = "none"
            /\ FromRetiredSecret(prev.cookieHeader)
            /\ prev.cookieHeader[1].data.expires > prev.init.at)
       => /\ cookieHeader = prev.setCookie.value
          /\ init.decoded
          /\ init.data = prev.sessionData
          /\ init.data.payload = prev.cookieHeader[1].data.payload
          /\ ~init.rotated

C1_Witness ==
    /\ JustInitialised /\ reqNo = 2 /\ prev.op = "none"
    /\ FromRetiredSecret(prev.cookieHeader)
    /\ prev.cookieHeader[1].data.expires > prev.init.at
    /\ prev.init.rotated
    /\ init.decoded /\ ~init.rotated
    /\ read.payload = {"b"}


\* the destroy sentinel: value '0', no max-age, an expiry in the past
IsDestroySentinel(directive) ==
    /\ directive.set
    /\ directive.value = <<Zero>>
    /\ ~directive.hasMaxAge
    /\ directive.hasExpires
    /\ directive.expires < now

\* the incoming value has a payload portion that does not decrypt
FailsToDecode(c) == Payload(c) # EmptyString /\ ~Decoded(c).ok

\* C2 (decode failure is recovered as a destroy): when the incoming cookie has a
\* non-empty payload that fails to decrypt, initialisation completes, read() is
\* empty and the outgoing directive is the destroy sentinel, whatever the
\* rolling setting.
C2_DecodeFailureDestroys ==
    (JustInitialised /\ FailsToDecode(cookieHeader))
    => /\ init.failed
       /\ read = EmptyObject
       /\ IsDestroySentinel(setCookie)
       /\ ~init.rolled

C2_Witness ==
    /\ JustInitialised
    /\ cookieHeader = <<Zero>>
    /\ options.rolling = RollingPct(100)
    /\ IsDestroySentinel(setCookie)
    /\ read = EmptyObject

\* C3 (authoritative data): whenever read() is non-empty, the payload's
\* remaining lifetime (expires - now) is greater than 0.  Stated for the states
\* in which the clock has not moved since initialisation.
C3_ReadOnlyUnexpired ==
    (pc = "ready" /\ now = init.at /\ read.hasExpires) => read.expires - now > 0

\* the session the incoming cookie decodes to is expired: remaining lifetime <= 0
DecodedExpired == init.decoded /\ init.data.expires - init.at <= 0

\* C4 (rolling refresh acts only on a non-expired session): with the cookie
\* absent, undecodable or expired, initialisation performs no refresh: the stored
\* expires is not extended and no directive carries a renewed session.
C4_NoRefreshWithoutLiveSession ==
    (JustInitialised /\ (~init.decoded \/ DecodedExpired))
    => /\ ~init.rolled
       /\ sessionData.def => sessionData.expires = init.data.expires
       /\ (setCookie.set /\ setCookie.hasMaxAge)
            => setCookie.value[1].data.expires = init.data.expires

\* the handle is Active: it holds a valid, non-expired session
Active(h) == Read(h).hasExpires

\* C5 (set's lifetime rule): on an Active handle set keeps the existing expiry
\* and the cookie's max-age is what remains of it; in every other state set
\* applies the configured default lifetime.
C5_SetLifetime ==
    [][\A data \in Payloads :
          Set(data) =>
            IF Active(HandleState)
            THEN /\ sessionData'.expires = sessionData.expires
                 /\ setCookie'.maxAge = sessionData.expires - now
            ELSE /\ sessionData'.expires = now + options.maxAge
                 /\ setCookie'.maxAge = options.maxAge]_vars

\* C6 (read after write): after set(data) or update(fn), read() returns the
\* stored payload with its expires field, not empty.
C6_ReadAfterWrite ==
    [][/\ \A data \in Payloads :
            Set(data) => Read(HandleState)' = AsObject(Data(data, sessionData'.expires))
       /\ \A fn \in UpdateFns :
            Update(fn) => /\ Read(HandleState)'.hasExpires
                          /\ Read(HandleState)' = AsObject(sessionData')]_vars

\* what read() hands out, as the object a transform would be given
ReadAsInput(h) == IF Read(h).hasExpires THEN h.sessionData ELSE Undefined

\* C7 (update is set after the transform): the transform receives what read()
\* returns, and the handle ends as set leaves it when given the transform's
\* result on that.
C7_UpdateIsSetOfTransform ==
    [][\A fn \in UpdateFns :
          Update(fn) =>
            /\ TransformInput(HandleState) = ReadAsInput(HandleState)
            /\ HandleState' = set(HandleState, ApplyFn(fn, ReadAsInput(HandleState)))]_vars

\* the lifetime refresh(days) asks for: the override, else the configured
\* default (an override of 0 days counts as none)
RequestedDays(days) ==
    IF days # <<>> /\ days[1] # 0 THEN days[1] ELSE options.expiresInDays

\* C8 (refresh): without an active session refresh returns false and changes
\* nothing; on an Active session it returns true, sets expires to now + the
\* requested lifetime and replaces the directive with the re-encoded cookie.
C8_Refresh ==
    [][\A days \in RefreshDays :
          Refresh(days) =>
            IF Active(HandleState)
            THEN /\ last'.ret
                 /\ sessionData' = Data(sessionData.payload,
                                        now + RequestedDays(days) * DaySecs * TicksPerSec)
                 /\ CarriesUnderCurrent(setCookie', sessionData')
                 /\ setCookie'.maxAge = RequestedDays(days) * DaySecs * TicksPerSec
            ELSE /\ ~last'.ret
                 /\ HandleState' = HandleState]_vars

\* the handle as destroy leaves it (a refusing refresh does not change it)
Destroyed == ~sessionData.def /\ IsDestroySentinel(setCookie)

\* the expiry the sentinel gets when made now (core.ts 119)
SentinelExpiry == now - (DestroyOffsetMs \div 1000) * TicksPerSec

\* C9 (destroy idempotence), as claimed: destroy returns true, leaves read()
\* empty and the directive the destroy sentinel; a destroy of a destroyed handle
\* yields the same directive and the same empty read(); a refresh of a destroyed
\* handle returns false and leaves the directive alone.
C9_SameDirectiveTwice ==
    [][/\ (last'.op = "destroy" /\ Destroy) =>
            /\ last'.ret
            /\ Read(HandleState)' = EmptyObject
            /\ setCookie'.set /\ setCookie'.value = <<Zero>>
            /\ ~setCookie'.hasMaxAge
            /\ setCookie'.hasExpires /\ setCookie'.expires < now
            /\ Destroyed => /\ setCookie' = setCookie
                            /\ Read(HandleState)' = Read(HandleState)
       /\ (last'.op = "refresh" /\ Destroyed /\ \E days \in RefreshDays : Refresh(days)) =>
            /\ ~last'.ret
            /\ setCookie' = setCookie
            /\ Read(HandleState)' = EmptyObject]_vars

\* C9 (destroy idempotence), amended: destroy returns true, leaves read() empty
\* and the directive the destroy sentinel, whose expiry lies a fixed time
\* before the call; a destroy of a destroyed handle yields the same empty read()
\* and a directive that differs from the earlier one in that expiry at most (not
\* at all when the clock has not moved); a refresh of a destroyed handle returns
\* false and leaves the directive alone.
C9_DestroyIdempotent ==
    [][/\ (last'.op = "destroy" /\ Destroy) =>
            /\ last'.ret
            /\ Read(HandleState)' = EmptyObject
            /\ setCookie'.set /\ setCookie'.value = <<Zero>>
            /\ ~setCookie'.hasMaxAge
            /\ setCookie'.hasExpires /\ setCookie'.expires < now
            /\ setCookie'.expires = SentinelExpiry
            /\ Destroyed =>
                /\ setCookie' = [setCookie EXCEPT !.expires = SentinelExpiry]
                /\ Read(HandleState)' = Read(HandleState)
                /\ setCookie.expires = SentinelExpiry => setCookie' = setCookie
       /\ (last'.op = "refresh" /\ Destroyed /\ \E days \in RefreshDays : Refresh(days)) =>
            /\ ~last'.ret
            /\ setCookie' = setCookie
            /\ Read(HandleState)' = EmptyObject]_vars

C9_Witness ==
    /\ last.op = "refresh" /\ ~last.ret
    /\ Destroyed
    /\ setCookie.expires # SentinelExpiry
    /\ init.decoded /\ ~sessionState.invalidDate
    /\ read = EmptyObject

\* C10 (round trip across requests): the cookie that set emitted, presented
\* before its expiry on the following request with rolling disabled, decodes
\* under ring[0] to the stored payload with the same expires, without rotation
\* and without an outgoing directive.
C10_RoundTrip ==
    (JustInitialised /\ reqNo = 2 /\ prev.op = "set" /\ ~options.rolling.on
        /\ init.at < prev.sessionData.expires)
    => /\ cookieHeader = prev.setCookie.value
       /\ init.decoded
       /\ init.data = prev.sessionData
       /\ read = AsObject(prev.sessionData)
       /\ ~init.rotated
       /\ ~setCookie.set

C10_Witness ==
    /\ JustInitialised /\ reqNo = 2 /\ prev.op = "set" /\ ~options.rolling.on
    /\ init.at < prev.sessionData.expires
    /\ Len(options.secrets) = 2
    /\ init.decoded /\ read.payload = {"a"}
    /\ ~setCookie.set

\* the directive carries a session cookie (not the destroy sentinel)
IsSessionCookie(directive) == directive.set /\ directive.value # <<Zero>>

\* C11 (the current secret is always used to encode): whatever initialisation
\* (with or without rotation and rolling refresh), set, update and refresh did,
\* an outgoing directive that is not the destroy sentinel is encrypted with
\* ring[0].secret and tagged with ring[0].id.
C11_EncodedWithCurrentSecret ==
    IsSessionCookie(setCookie)
    => /\ Len(setCookie.value) = 2
       /\ setCookie.value[1].kind = "enc"
       /\ setCookie.value[1].key = options.secrets[1].secret
       /\ setCookie.value[2] = options.secrets[1].id

C11_Witness ==
    /\ pc = "ready"
    /\ Len(options.secrets) = 2
    /\ init.rotated
    /\ last.op = "update"
    /\ IsSessionCookie(setCookie)
    /\ setCookie.value[1].key = options.secrets[1].secret

\* the lifetime, in ticks, that the presented session had left when the request
\* was initialised
RemainingAtInit == cookieHeader[1].data.expires - init.at

\* initialisation decoded a session that had not expired
DecodedLive == JustInitialised /\ init.decoded /\ RemainingAtInit > 0

\* initialisation refreshed the session: refresh returned true and the session
\* got the default lifetime from the time of the request
RolledAtInit ==
    /\ init.rolled
    /\ sessionData.expires = init.at + options.maxAge
    /\ CarriesUnderCurrent(setCookie, sessionData)
    /\ setCookie.maxAge = options.maxAge

\* initialisation left the lifetime of the session alone
NotRolledAtInit ==
    /\ ~init.rolled
    /\ sessionData.expires = cookieHeader[1].data.expires

\* C12 (rolling threshold decision), as claimed: for a non-expired decoded
\* session, rolling = p refreshes exactly when the remaining lifetime is
\* strictly below (p/100) * maxAge; rolling = false never refreshes and
\* rolling = true always does.
C12_ExactThreshold ==
    DecodedLive
    => IF ~options.rolling.on THEN NotRolledAtInit
       ELSE IF ~options.rolling.isNumber THEN RolledAtInit
       ELSE IF RemainingAtInit * 100 < options.rolling.pct * options.maxAge
            THEN RolledAtInit
            ELSE NotRolledAtInit

\* C12 (rolling threshold decision), as the code decides it: the remaining
\* lifetime is rounded to the nearest whole second before it is compared with
\* (p/100) * maxAge.
C12_RoundedThreshold ==
    DecodedLive
    => IF ~options.rolling.on THEN NotRolledAtInit
       ELSE IF ~options.rolling.isNumber THEN RolledAtInit
       ELSE IF MathRound(RemainingAtInit, TicksPerSec) * TicksPerSec * 100
                 < options.rolling.pct * options.maxAge
            THEN RolledAtInit
            ELSE NotRolledAtInit

\* a session with half a second less than the threshold left is not refreshed
C12_Witness ==
    /\ DecodedLive
    /\ options.rolling.isNumber
    /\ RemainingAtInit % TicksPerSec # 0
    /\ RemainingAtInit * 100 < options.rolling.pct * options.maxAge
    /\ NotRolledAtInit

\* C13 (rotation preserves lifetime): with rolling disabled, the re-encoding of
\* a cookie that was encoded under a non-current ring secret leaves the
\* payload's expires as it was decoded and gives the cookie the max-age
\* expires - now, whatever the configured default lifetime.
C13_RotationPreservesLifetime ==
    (JustInitialised /\ FromRetiredSecret(cookieHeader) /\ ~options.rolling.on)
    => /\ sessionData = cookieHeader[1].data
       /\ CarriesUnderCurrent(setCookie, cookieHeader[1].data)
       /\ setCookie.hasMaxAge
       /\ setCookie.maxAge = cookieHeader[1].data.expires - init.at

\* a rotation of a session whose remaining lifetime is not the default one
C13_Witness ==
    /\ JustInitialised
    /\ FromRetiredSecret(cookieHeader)
    /\ ~options.rolling.on
    /\ init.rotated
    /\ cookieHeader[1].data.expires - init.at \notin {0, options.maxAge}
    /\ setCookie.maxAge = sessionData.expires - init.at

\* C14 (directive cardinality): the handle holds at most one outgoing directive,
\* and it holds none exactly when neither set, update, destroy nor a successful
\* refresh was invoked and initialisation neither rotated, nor rolling-refreshed,
\* nor hit a decode failure.
C14_DirectiveCardinality ==
    pc = "ready"
    => (~setCookie.set <=> /\ ~last.wrote
                           /\ ~init.rotated
                           /\ ~init.rolled
                           /\ ~init.failed)

\* a rotation behind which nothing else was invoked
C14_Witness ==
    /\ pc = "ready"
    /\ init.rotated /\ ~init.rolled /\ ~init.failed
    /\ last.op = "none"
    /\ IsSessionCookie(setCookie)

\* the ring entry the claim says a presented value c is decoded with: the entry
\* whose id is the tag of c (1 for an untagged value), ring[0] when no entry has
\* that id
RingIds == {options.secrets[i].id : i \in 1..Len(options.secrets)}
SelectedEntry(c) ==
    LET id == IF Len(c) = 1 THEN 1 ELSE c[2]
    IN  IF id \in RingIds
        THEN options.secrets[CHOOSE i \in 1..Len(options.secrets) : options.secrets[i].id = id]
        ELSE options.secrets[1]

\* C16 (secret selection on decode): an untagged value is decoded with the ring
\* entry of id 1, a tagged value with the entry of that id, and with ring[0] when
\* no entry has the id; a value whose payload portion is empty gives no session,
\* no error and no directive.
C16_SecretSelection ==
    JustInitialised
    => IF cookieHeader[1] = EmptyString
       THEN /\ ~init.decoded /\ ~init.failed /\ ~init.rolled
            /\ ~sessionData.def
            /\ read = EmptyObject
            /\ ~setCookie.set
       ELSE IF cookieHeader[1].kind = "enc"
               /\ cookieHeader[1].key = SelectedEntry(cookieHeader).secret
            THEN /\ init.decoded /\ ~init.failed
                 /\ init.data = cookieHeader[1].data
                 /\ sessionData.def
                 /\ sessionData.payload = cookieHeader[1].data.payload
            ELSE /\ init.failed /\ ~init.decoded
                 /\ Destroyed

\* an untagged value decoded with ring[0] because the ring has no entry of id 1
C16_Witness ==
    /\ JustInitialised
    /\ Len(cookieHeader) = 1
    /\ cookieHeader[1].kind = "enc"
    /\ 1 \notin RingIds
    /\ init.decoded
    /\ sessionData.payload = cookieHeader[1].data.payload

\* C18 (directive and stored payload agree): under sequential use, when the
\* outgoing directive is the destroy sentinel the handle stores no payload, and
\* when it is a session cookie that cookie decodes under ring[0] to exactly the
\* stored payload, expires included.
C18_DirectiveMatchesPayload ==
    pc = "ready"
    => /\ (setCookie.set /\ setCookie.value = <<Zero>>) => ~sessionData.def
       /\ IsSessionCookie(setCookie) => CarriesUnderCurrent(setCookie, sessionData)

\* a session that initialisation decoded, an update changed and a refresh
\* extended
C18_Witness ==
    /\ pc = "ready"
    /\ init.decoded
    /\ last.op = "refresh" /\ last.ret
    /\ sessionData.payload = {"a", "b"}
    /\ sessionData.expires # init.data.expires
    /\ CarriesUnderCurrent(setCookie, sessionData)

\* C15 (encrypt failures propagate): a failure of encrypt during the rotation
\* re-encryption or the rolling refresh of initialisation makes initialisation
\* fail visibly instead of returning a handle, and a failure during set, update
\* or refresh is thrown to the caller and not reported as success.
C15_EncryptFailurePropagates ==
    /\ init.encryptFailed => pc = "threw" /\ ~Destroyed
    /\ last.threw => pc = "threw" /\ ~last.ret

\* C20 (a failed mutation changes nothing): when encrypt fails during set,
\* update or refresh, the stored payload, its expires, what read() returns and
\* the outgoing directive are as they were before the call.
C20_FailedMutationChangesNothing ==
    [][(/\ last'.threw
        /\ \/ \E data \in Payloads : SetFails(data)
           \/ \E fn \in UpdateFns : UpdateFails(fn)
           \/ \E days \in RefreshDays : RefreshFails(days))
       => /\ sessionData' = sessionData
          /\ Read(HandleState)' = Read(HandleState)
          /\ setCookie' = setCookie]_vars

\* C17 (non-empty ring): a configuration whose secret is missing, or is an empty
\* list, is rejected with a configuration error before any cookie is decoded;
\* one bare secret becomes the ring [(id 1, secret)]; so an initialised handle
\* always has a ring with at least one entry.
C17_RingNonEmpty ==
    [][/\ \A u \in UserSecrets, e \in UserExpires, r \in Rollings :
            Configure(u, e, r) =>
                IF ~u.given \/ (u.isArray /\ u.list = <<>>)
                THEN pc' = "configError"
                ELSE /\ pc' = "uninit"
                     /\ Len(options'.secrets) >= 1
                     /\ ~u.isArray => options'.secrets = <<Secret(1, u.bare)>>
       /\ pc' = "ready" => Len(options'.secrets) >= 1]_vars

\* both calls have returned
BothDone == \A c \in CallIds : calls[c].pc = "done"

\* C19 (overlapping mutations): when two set/update calls overlap, then in
\* every interleaving of their transform and encrypt completions, once both
\* have returned the outgoing directive encodes the stored payload, and no
\* update's transform result is lost: two updates of which one adds the field
\* "a" leave a payload that has it.
C19_OverlapKeepsDirectiveCurrent ==
    BothDone
    => /\ CarriesUnderCurrent(setCookie, sessionData)
       /\ (/\ \A c \in CallIds : calls[c].kind = "update"
           /\ \E c \in CallIds : calls[c].fn = "addA")
          => "a" \in sessionData.payload

====
